---------------------------- MODULE Spec2Model ----------------------------
(***************************************************************************)
(* Model of prospector_smtp_app.py: the lead store (upsert_lead, CSV       *)
(* import/export), the Search & Extract probe loop, the campaign send      *)
(* loop and the site filter.                                               *)
(*                                                                         *)
(* Python strings are sequences of one-character strings, so that          *)
(* str.lower, str.strip, str.rstrip, str.endswith, the `in` substring test *)
(* and the EMAIL_RE regular expression are computed character by           *)
(* character.  None and pandas' NaN are the one-element sequences None and *)
(* NaN, whose element is no character.                                     *)
(***************************************************************************)
EXTENDS Integers, Sequences, FiniteSets, TLC

VARIABLES
    leads,      \* st.session_state.leads: the rows of the DataFrame, in index order
    pc,         \* where the script is: "idle" at the widgets, "shown" after a handler
    op,         \* the last completed store operation: its arguments and outcome
    run,        \* locals of the Search & Extract handler (urls, loop indices, added)
    camp,       \* locals of the campaign handler (emails, loop index, sent, cap)
    log,        \* the network calls and sleeps of the running handler, in order
    flt         \* the last call of looks_like_business_site: url and result

vars == <<leads, pc, op, run, camp, log, flt>>

----------------------------------------------------------------------------
(* Bounds of the model *)

MaxLeads == 2      \* rows the store may hold in SpecStore and SpecSearch
MaxRows == 2       \* rows of an imported CSV file
MaxUrls == 2       \* URLs a search returns in one Search & Extract run
MaxCampLeads == 5  \* rows the store may hold in SpecCampaign
MaxCap == 3        \* largest daily cap tried by the campaign loop

----------------------------------------------------------------------------
(* Characters and Python's string methods *)

LowerSeq == <<"a","b","c","d","e","f","g","h","i","j","k","l","m",
              "n","o","p","q","r","s","t","u","v","w","x","y","z">>
UpperSeq == <<"A","B","C","D","E","F","G","H","I","J","K","L","M",
              "N","O","P","Q","R","S","T","U","V","W","X","Y","Z">>

Range(f) == {f[i] : i \in DOMAIN f}

AsciiLower == Range(LowerSeq)
AsciiUpper == Range(UpperSeq)
AsciiLetter == AsciiLower \cup AsciiUpper
Digit == {"0","1","2","3","4","5","6","7","8","9"}
\* Letters outside ASCII: word characters for \b (Python 3 str patterns are
\* Unicode), in none of the bracketed classes of EMAIL_RE.
NonAsciiLetter == {"é", "É"}
AllLower == LowerSeq \o <<"é">>
AllUpper == UpperSeq \o <<"É">>
Whitespace == {" "}

None == <<"<None>">>
NaN == <<"<NaN>">>
Empty == <<>>

\* Python truthiness of an optional string: None and "" are falsy.  float('nan')
\* is truthy.
Truthy(s) == s # None /\ s # Empty

LowerChar(c) ==
    IF c \in Range(AllUpper)
    THEN AllLower[CHOOSE i \in DOMAIN AllUpper : AllUpper[i] = c]
    ELSE c

UpperChar(c) ==
    IF c \in Range(AllLower)
    THEN AllUpper[CHOOSE i \in DOMAIN AllLower : AllLower[i] = c]
    ELSE c

\* str.lower()
Lower(s) == [i \in DOMAIN s |-> LowerChar(s[i])]

\* str.strip(): drop leading and trailing whitespace
Strip(s) ==
    LET keep == {i \in DOMAIN s : s[i] \notin Whitespace}
    IN  IF keep = {} THEN Empty
        ELSE LET lo == CHOOSE i \in keep : \A j \in keep : i <= j
                 hi == CHOOSE i \in keep : \A j \in keep : i >= j
             IN  SubSeq(s, lo, hi)

\* str.rstrip("/")
RStripSlash(s) ==
    LET keep == {i \in DOMAIN s : s[i] # "/"}
    IN  IF keep = {} THEN Empty
        ELSE SubSeq(s, 1, CHOOSE i \in keep : \A j \in keep : i >= j)

\* str.title(): the first letter of each run of letters upper, the rest lower
Title(s) ==
    [i \in DOMAIN s |->
        IF i = 1 \/ s[i-1] \notin AsciiLetter \cup NonAsciiLetter
        THEN UpperChar(s[i]) ELSE LowerChar(s[i])]

\* s.endswith(t)
EndsWith(s, t) ==
    Len(s) >= Len(t) /\ SubSeq(s, Len(s) - Len(t) + 1, Len(s)) = t

\* t in s (substring)
Contains(s, t) ==
    \E i \in 1..(Len(s) - Len(t) + 1) : SubSeq(s, i, i + Len(t) - 1) = t

\* s[:n]
Prefix(s, n) == SubSeq(s, 1, IF Len(s) < n THEN Len(s) ELSE n)

----------------------------------------------------------------------------
(* EMAIL_RE = \b[A-Za-z0-9._%+-]+@[A-Za-z0-9.-]+\.[A-Za-z]{2,}\b *)

WordChar(c) == c \in AsciiLetter \cup Digit \cup {"_"} \cup NonAsciiLetter
LocalChar(c) == c \in AsciiLetter \cup Digit \cup {".", "_", "%", "+", "-"}
DomainChar(c) == c \in AsciiLetter \cup Digit \cup {".", "-"}

\* \b between s[p-1] and s[p]: exactly one side is a word character
WordBoundary(s, p) ==
    LET w(i) == i \in DOMAIN s /\ WordChar(s[i])
    IN  w(p - 1) # w(p)

\* The positions e at which a match of EMAIL_RE starting at p can end.
EmailMatchEnds(s, p) ==
    {e \in p..Len(s) :
        /\ WordBoundary(s, p)
        /\ WordBoundary(s, e + 1)
        /\ \E a \in (p+1)..e :
            /\ s[a] = "@"
            /\ \A i \in p..(a-1) : LocalChar(s[i])
            /\ \E d \in (a+2)..(e-2) :
                /\ s[d] = "."
                /\ \A i \in (a+1)..(d-1) : DomainChar(s[i])
                /\ \A i \in (d+1)..e : s[i] \in AsciiLetter}

\* EMAIL_RE.match(s): a match anchored at the start of s (not a full match)
EmailReMatch(s) == EmailMatchEnds(s, 1) # {}

\* EMAIL_RE.findall(text)[0] if any, else None: the leftmost match; the greedy
\* quantifiers take the latest end the backtracking allows.
FirstEmail(text) ==
    LET starts == {p \in DOMAIN text : EmailMatchEnds(text, p) # {}}
    IN  IF starts = {} THEN None
        ELSE LET p == CHOOSE q \in starts : \A r \in starts : q <= r
                 ends == EmailMatchEnds(text, p)
                 e == CHOOSE x \in ends : \A y \in ends : x >= y
             IN  SubSeq(text, p, e)

----------------------------------------------------------------------------
(* Lead store *)

LeadRow(company, email, website, phone, source) ==
    [Company |-> company, Email |-> email, Website |-> website,
     Phone |-> phone, Source |-> source]

\* set(df["Email"].str.lower())
LoweredEmails(df) == {Lower(df[i].Email) : i \in DOMAIN df}

OrEmpty(x) == IF Truthy(x) THEN x ELSE Empty


\* A faulty variant of upsert_lead: a later call with a stored email overwrites
\* the stored row (last writer wins)
upsert_lead_lastWriterWins(df, name, email, website, phone, source) ==
    IF ~Truthy(email) THEN df
    ELSE IF Lower(email) \in LoweredEmails(df)
    THEN [i \in DOMAIN df |->
            IF Lower(df[i].Email) = Lower(email)
            THEN LeadRow(OrEmpty(name), Strip(email), website, OrEmpty(phone), source)
            ELSE df[i]]
    ELSE Append(df, LeadRow(OrEmpty(name), Strip(email), website,
                            OrEmpty(phone), source))

\* upsert_lead(name, email, website, phone, source): the store after the call.
\* .loc[len(df)] on the 0..n-1 index the store always has adds one row at the end.
upsert_lead(df, name, email, website, phone, source) ==
    IF ~Truthy(email) THEN df
    ELSE IF Lower(email) \in LoweredEmails(df) THEN df
    ELSE Append(df, LeadRow(OrEmpty(name), Strip(email), website,
                            OrEmpty(phone), source))

----------------------------------------------------------------------------
(* CSV export and import.  A CSV file as pandas reads it: the column names  *)
(* of its header line and, per data line, one cell per column.  A cell is a *)
(* string or NaN.                                                           *)

S_Company == <<"C","o","m","p","a","n","y">>
S_Email == <<"E","m","a","i","l">>
S_Website == <<"W","e","b","s","i","t","e">>
S_Phone == <<"P","h","o","n","e">>
S_Source == <<"S","o","u","r","c","e">>
S_import == <<"i","m","p","o","r","t">>
S_nan == <<"n","a","n">>

LeadColumns == <<S_Company, S_Email, S_Website, S_Phone, S_Source>>

\* Strings read_csv turns into NaN (its default na_values that matter here),
\* besides the empty field.
NaStrings == {Empty, S_nan, <<"N","A">>, <<"N","a","N">>, <<"n","u","l","l">>,
              <<"N","U","L","L">>, <<"N","o","n","e">>, <<"N","/","A">>,
              <<"n","/","a">>}

\* What read_csv returns for a string cell written by to_csv
CsvCell(s) == IF s \in NaStrings THEN NaN ELSE s

\* df.to_csv(index=False), as read_csv reads it back
to_csv(df) ==
    [cols |-> LeadColumns,
     rows |-> [i \in DOMAIN df |->
                 <<CsvCell(df[i].Company), CsvCell(df[i].Email),
                   CsvCell(df[i].Website), CsvCell(df[i].Phone),
                   CsvCell(df[i].Source)>>]]

\* rename = {c: c.strip().title() for c in new.columns}
RenamedColumns(cols) == [i \in DOMAIN cols |-> Title(Strip(cols[i]))]

\* row.get(key, "") under the renamed columns cols (the renamed names are distinct)
RowGet(cols, row, key) ==
    LET at == {i \in DOMAIN cols : cols[i] = key}
    IN  IF at = {} THEN Empty ELSE row[CHOOSE i \in at : TRUE]

\* str(x or ""): NaN is truthy and prints as "nan"
StrOrEmpty(x) == IF x = NaN THEN S_nan ELSE OrEmpty(x)

\* The row the import loop stores for a data line
ImportedRow(cols, row) ==
    LeadRow(Prefix(StrOrEmpty(RowGet(cols, row, S_Company)), 120),
            Strip(StrOrEmpty(RowGet(cols, row, S_Email))),
            StrOrEmpty(RowGet(cols, row, S_Website)),
            StrOrEmpty(RowGet(cols, row, S_Phone)),
            S_import)

\* A faulty variant of ImportStep: existing.add(email.lower()) is left out
ImportStep_noExistingAdd(st, cols, row) ==
    LET email == Strip(StrOrEmpty(RowGet(cols, row, S_Email)))
    IN  IF ~Truthy(email) \/ ~EmailReMatch(email) THEN st
        ELSE IF Lower(email) \in st.existing THEN st
        ELSE [df |-> Append(st.df, ImportedRow(cols, row)),
              existing |-> st.existing,
              imported |-> st.imported + 1]

\* One iteration of `for _, row in new.iterrows()` on the loop state
\* [df, existing, imported]
ImportStep(st, cols, row) ==
    LET email == Strip(StrOrEmpty(RowGet(cols, row, S_Email)))
    IN  IF ~Truthy(email) \/ ~EmailReMatch(email) THEN st
        ELSE IF Lower(email) \in st.existing THEN st
        ELSE [df |-> Append(st.df, ImportedRow(cols, row)),
              existing |-> st.existing \cup {Lower(email)},
              imported |-> st.imported + 1]

RECURSIVE ImportLoop(_, _, _, _)
ImportLoop(st, cols, rows, k) ==
    IF k > Len(rows) THEN st
    ELSE ImportLoop(ImportStep(st, cols, rows[k]), cols, rows, k + 1)

\* The import block of tab_export on an uploaded file: the final loop state
import_csv(df, file) ==
    ImportLoop([df |-> df, existing |-> LoweredEmails(df), imported |-> 0],
               RenamedColumns(file.cols), file.rows, 1)

----------------------------------------------------------------------------
(* Site filter *)

SOCIAL_DOMAINS ==
    <<<<"f","a","c","e","b","o","o","k",".","c","o","m">>,
      <<"i","n","s","t","a","g","r","a","m",".","c","o","m">>,
      <<"l","i","n","k","e","d","i","n",".","c","o","m">>,
      <<"t","w","i","t","t","e","r",".","c","o","m">>,
      <<"x",".","c","o","m">>,
      <<"y","o","u","t","u","b","e",".","c","o","m">>,
      <<"y","e","l","p",".","c","o","m">>,
      <<"a","n","g","i","e","s","l","i","s","t",".","c","o","m">>,
      <<"h","o","u","z","z",".","c","o","m">>,
      <<"p","i","n","t","e","r","e","s","t",".","c","o","m">>,
      <<"t","i","k","t","o","k",".","c","o","m">>>>

SchemeChar(c) == c \in AsciiLetter \cup Digit \cup {"+", "-", "."}

\* urlsplit: the text after "scheme:" when the text before the first colon is a
\* scheme, else the whole text
AfterScheme(u) ==
    LET colons == {i \in DOMAIN u : u[i] = ":"}
    IN  IF colons = {} THEN u
        ELSE LET i == CHOOSE c \in colons : \A d \in colons : c <= d
             IN  IF /\ i > 1
                    /\ u[1] \in AsciiLetter
                    /\ \A j \in 1..(i-1) : SchemeChar(u[j])
                 THEN SubSeq(u, i + 1, Len(u))
                 ELSE u

\* urlparse(u).netloc: what follows "//" up to the first of / ? #
Netloc(u) ==
    LET r == AfterScheme(u)
    IN  IF Len(r) >= 2 /\ r[1] = "/" /\ r[2] = "/"
        THEN LET delims == {i \in 3..Len(r) : r[i] \in {"/", "?", "#"}}
                 last == IF delims = {} THEN Len(r)
                         ELSE (CHOOSE c \in delims : \A d \in delims : c <= d) - 1
             IN  SubSeq(r, 3, last)
        ELSE Empty

\* urlparse raises ValueError("Invalid IPv6 URL") on an unmatched bracket
UrlparseRaises(u) ==
    ("[" \in Range(Netloc(u))) # ("]" \in Range(Netloc(u)))

domain_of(u) == IF UrlparseRaises(u) THEN Empty ELSE Lower(Netloc(u))

\* A faulty variant of looks_like_business_site: the blocklist test is left out
looks_like_business_site_noBlocklist(u) ==
    LET d == domain_of(u)
    IN  IF d = Empty THEN FALSE
        ELSE \/ EndsWith(d, <<".","c","o","m">>)
             \/ EndsWith(d, <<".","n","e","t">>)
             \/ EndsWith(d, <<".","o","r","g">>)

looks_like_business_site(u) ==
    LET d == domain_of(u)
    IN  IF d = Empty THEN FALSE
        ELSE IF \E k \in DOMAIN SOCIAL_DOMAINS : Contains(d, SOCIAL_DOMAINS[k])
        THEN FALSE
        ELSE \/ EndsWith(d, <<".","c","o","m">>)
             \/ EndsWith(d, <<".","n","e","t">>)
             \/ EndsWith(d, <<".","o","r","g">>)

----------------------------------------------------------------------------
(* Inputs tried by the model *)

E_ab == <<"a","@","b",".","c","o">>
E_AB == <<"A","@","B",".","C","O">>
E_ab_lead == <<" ","a","@","b",".","c","o">>
E_Ab_pad == <<" ","A","@","b",".","c","o"," ">>
E_cd_tail == <<"c","@","d",".","i","o"," ","x">>
E_noTld == <<"a","@","b">>
N_Acme == <<"A","c","m","e">>
N_Bolt == <<"B","o","l","t">>
P_305 == <<"3","0","5">>
U_a == <<"h","t","t","p",":","/","/","a",".","c","o","m">>
S_bing == <<"b","i","n","g">>

\* Arguments of direct upsert_lead calls
UpsertEmails == {None, Empty, E_ab, E_AB, E_ab_lead}
UpsertNames == {None, N_Acme}

\* Email cells of imported files: valid, valid with other case and padding, valid
\* prefix followed by other text, invalid, empty (NaN)
ImportEmailCells == {E_ab, E_Ab_pad, E_cd_tail, E_noTld, NaN}

\* Header lines of imported files: the exported one, one needing normalisation,
\* one with no email column
ImportHeaders ==
    {LeadColumns,
     <<<<" ","e","m","a","i","l"," ">>, <<"C","O","M","P","A","N","Y">>>>,
     <<<<"N","a","m","e">>, <<"M","a","i","l">>>>}

\* The data line holding email cell e under header cols; the company cell follows
\* from the email cell, the other cells are empty.
FileRow(cols, e) ==
    [i \in DOMAIN cols |->
        IF RenamedColumns(cols)[i] = S_Email THEN e
        ELSE IF RenamedColumns(cols)[i] = S_Company
             THEN (IF e = E_ab THEN N_Acme ELSE NaN)
        ELSE NaN]

SeqsUpTo(S, n) == UNION {[1..k -> S] : k \in 0..n}

ImportFiles ==
    {[cols |-> h, rows |-> [i \in DOMAIN es |-> FileRow(h, es[i])]] :
        h \in ImportHeaders, es \in SeqsUpTo(ImportEmailCells, MaxRows)}

NoOp == [kind |-> "none"]
NoRun == [urls |-> <<>>, si |-> 0, ti |-> 0, added |-> 0, before |-> <<>>]
NoCamp == [emails |-> <<>>, ei |-> 0, sent |-> 0, cap |-> 0]
NoFlt == [url |-> None, result |-> FALSE]

----------------------------------------------------------------------------
(* The lead store under direct upsert_lead calls and CSV imports *)

Init ==
    /\ leads = <<>>
    /\ pc = "idle"
    /\ op = NoOp
    /\ run = NoRun
    /\ camp = NoCamp
    /\ log = <<>>
    /\ flt = NoFlt

\* A call upsert_lead(name, email, website, phone, source)
UpsertCall ==
    /\ pc = "idle"
    /\ \E name \in UpsertNames, email \in UpsertEmails :
        LET new == upsert_lead(leads, name, email, U_a, None, S_bing)
        IN  /\ Len(new) <= MaxLeads
            /\ leads' = new
            /\ op' = [kind |-> "upsert", name |-> name, email |-> email,
                      before |-> leads]
    /\ pc' = "shown"
    /\ UNCHANGED <<run, camp, log, flt>>

\* An upload handled by the import block: "Imported N leads."
ImportCall ==
    /\ pc = "idle"
    /\ \E file \in ImportFiles :
        LET st == import_csv(leads, file)
        IN  /\ Len(st.df) <= MaxLeads
            /\ leads' = st.df
            /\ op' = [kind |-> "import", file |-> file, before |-> leads,
                      imported |-> st.imported]
    /\ pc' = "shown"
    /\ UNCHANGED <<run, camp, log, flt>>

\* The next run of the script: the messages and the locals of the previous run
\* are gone, st.session_state.leads stays
Rerun ==
    /\ pc = "shown"
    /\ pc' = "idle"
    /\ op' = NoOp
    /\ flt' = NoFlt
    /\ run' = NoRun
    /\ camp' = NoCamp
    /\ log' = <<>>
    /\ UNCHANGED leads

NextStore == UpsertCall \/ ImportCall \/ Rerun

SpecStore == Init /\ [][NextStore]_vars

----------------------------------------------------------------------------
(* Claims about the lead store *)

\* C1: no two rows of the lead store have Email values that are equal when
\* compared case-insensitively, whatever upsert_lead calls and imports were made.
C1_NoTwoRowsShareEmail ==
    \A i, j \in DOMAIN leads :
        i # j => Lower(leads[i].Email) # Lower(leads[j].Email)

\* C2: upsert_lead is first-writer-wins.  If email is empty or absent, or its
\* lowercased form is the lowercased Email of a stored row, the store is left as
\* it was; otherwise one row is added at the end and every earlier row keeps its
\* position and attributes.
C2_UpsertFirstWriterWins ==
    op.kind = "upsert" =>
        IF \/ op.email \in {None, Empty}
           \/ \E i \in DOMAIN op.before :
                Lower(op.before[i].Email) = Lower(op.email)
        THEN leads = op.before
        ELSE /\ Len(leads) = Len(op.before) + 1
             /\ \A i \in DOMAIN op.before : leads[i] = op.before[i]

\* C2 witness: a call with the email of a stored row in another letter case and
\* another name left the store as it was, and a call with a new email added a row.
C2_Witness_DuplicateDropped ==
    /\ op.kind = "upsert"
    /\ op.email = E_AB
    /\ op.name = None
    /\ Len(op.before) = 1
    /\ op.before[1].Email = E_ab
    /\ op.before[1].Company = N_Acme
    /\ leads = op.before

\* The emails of the data lines of a file, trimmed: the cell under the column
\* whose trimmed, title-cased name is Email, an empty cell reading "nan"
TrimmedEmails(file) ==
    LET at == {i \in DOMAIN file.cols : Title(Strip(file.cols[i])) = S_Email}
    IN  [k \in DOMAIN file.rows |->
            IF at = {} THEN Empty
            ELSE LET cell == file.rows[k][CHOOSE i \in at : TRUE]
                 IN  Strip(IF cell = NaN THEN S_nan ELSE cell)]

\* Data line k is accepted: its trimmed email em[k] is valid, and its lowercased
\* email is not in the store and is not the email of an earlier accepted line.
RECURSIVE Accepted(_, _, _)
Accepted(before, em, k) ==
    /\ EmailReMatch(em[k])
    /\ \A i \in DOMAIN before : Lower(before[i].Email) # Lower(em[k])
    /\ \A j \in 1..(k-1) :
          Lower(em[j]) = Lower(em[k]) => ~Accepted(before, em, j)

----------------------------------------------------------------------------
(* The site filter on its own *)

T_com == <<".","c","o","m">>
T_net == <<".","n","e","t">>
T_org == <<".","o","r","g">>

UrlSchemes == {<<"h","t","t","p",":","/","/">>, <<"H","T","T","P","S",":","/","/">>, <<"/","/">>, Empty, <<"h","t","t","p",":","/">>}
UrlHosts ==
    {<<"a","c","m","e">>, <<"w","w","w",".","A","C","M","E">>, <<"n","e","t","f","l","i","x">>, <<"f","a","c","e","b","o","o","k">>, <<"m",".","Y","e","l","p">>, <<"[","v">>, Empty}
UrlSuffixes == {<<".","c","o","m">>, <<".","N","E","T">>, <<".","o","r","g">>, <<".","i","o">>, <<".","c","o","m",":","8","0">>, Empty}
UrlTails == {Empty, <<"/">>, <<"/","c","o","n","t","a","c","t">>, <<"/","x",".","c","o","m">>, <<"?","q","=",".","o","r","g">>}

\* URLs the filter is called with, as the search adapters call it on each result
FilterUrls ==
    {a \o h \o t \o r : a \in UrlSchemes, h \in UrlHosts, t \in UrlSuffixes, r \in UrlTails}

FilterCall ==
    /\ pc = "idle"
    /\ \E u \in FilterUrls :
        flt' = [url |-> u, result |-> looks_like_business_site(u)]
    /\ pc' = "shown"
    /\ UNCHANGED <<leads, op, run, camp, log>>

NextFilter == FilterCall \/ Rerun

SpecFilter == Init /\ [][NextFilter]_vars

\* C9: looks_like_business_site(url) is false when the network location of url
\* is empty or cannot be parsed, false when the network location contains a
\* blocklisted social or directory domain, and otherwise true exactly when the
\* lowercased network location ends in .com, .net or .org.
C9_SiteFilter ==
    flt.url # None =>
        LET d == domain_of(flt.url)
            blocked == \E k \in DOMAIN SOCIAL_DOMAINS : Contains(d, SOCIAL_DOMAINS[k])
            suffix == EndsWith(d, T_com) \/ EndsWith(d, T_net) \/ EndsWith(d, T_org)
        IN  /\ (d = Empty \/ blocked) => flt.result = FALSE
            /\ ~(d = Empty \/ blocked) => (flt.result = suffix)

\* C9 witness: a URL with an upper-case host ending in .NET and a path is accepted
C9_Witness_Accepted ==
    /\ flt.url = <<"H","T","T","P","S",":","/","/","w","w","w",".","A","C","M","E",".","N","E","T","/","c","o","n","t","a","c","t">>
    /\ flt.result = TRUE

----------------------------------------------------------------------------
(* Search & Extract *)

max_sites == 60

\* A faulty variant of try_candidate_pages: /about comes before /contact-us
try_candidate_pages_swapped(base_url) ==
    LET root == RStripSlash(base_url)
    IN  <<base_url,
          root \o <<"/","c","o","n","t","a","c","t">>,
          root \o <<"/","a","b","o","u","t">>,
          root \o <<"/","c","o","n","t","a","c","t","-","u","s">>,
          root \o <<"/","t","e","a","m">>>>

try_candidate_pages(base_url) ==
    LET root == RStripSlash(base_url)
    IN  <<base_url,
          root \o <<"/","c","o","n","t","a","c","t">>,
          root \o <<"/","c","o","n","t","a","c","t","-","u","s">>,
          root \o <<"/","a","b","o","u","t">>,
          root \o <<"/","t","e","a","m">>>>

\* A fetched page: the visible text, and the company name and phone the parser
\* finds in it.  FetchFailed is HTTP.get or raise_for_status raising.
FetchFailed == [fetched |-> FALSE]
Page(text, company, phone) ==
    [fetched |-> TRUE, text |-> text, company |-> company, phone |-> phone]

extract_company_info(page) ==
    IF ~page.fetched
    THEN [name |-> None, email |-> None, phone |-> None]
    ELSE [name |-> page.company, email |-> FirstEmail(page.text), phone |-> page.phone]

\* The elements of s at the positions in K, in order
RECURSIVE AtPositions(_, _, _)
AtPositions(s, K, i) ==
    IF i > Len(s) THEN <<>>
    ELSE (IF i \in K THEN <<s[i]>> ELSE <<>>) \o AtPositions(s, K, i + 1)

\* The results the search adapters return: those the site filter accepts
FilterResults(results) ==
    AtPositions(results, {i \in DOMAIN results : looks_like_business_site(results[i])}, 1)

\* by_domain: the first URL of each domain (domain_of(u) or u), in first-seen order
DedupeByDomain(all_urls) ==
    LET key(u) == IF domain_of(u) = Empty THEN u ELSE domain_of(u)
    IN  AtPositions(all_urls,
                    {i \in DOMAIN all_urls :
                        \A j \in 1..(i-1) : key(all_urls[j]) # key(all_urls[i])},
                    1)

\* urls = list(by_domain.values())[:max_sites]
CandidateSites(results) == Prefix(DedupeByDomain(FilterResults(results)), max_sites)

U_A_slash == <<"h","t","t","p",":","/","/","A",".","c","o","m","/">>
U_b_slash == <<"h","t","t","p",":","/","/","b",".","o","r","g","/">>
U_x == <<"h","t","t","p",":","/","/","x",".","c","o","m","/","u">>

\* URLs in the search API's answers
ApiUrls == {U_a, U_A_slash, U_b_slash, U_x}

T_plain == <<"w","r","i","t","e"," ","a","@","b",".","c","o"," ","n","o","w">>
T_upper == <<"A","@","B",".","C","O">>
T_accent == <<"a","n","d","r","é",".","b","@","c",".","f","r">>
T_none == <<"c","a","l","l"," ","u","s">>

\* What a probed page may turn out to be
PageResults ==
    {FetchFailed,
     Page(T_none, N_Acme, P_305),
     Page(T_plain, N_Acme, P_305),
     Page(T_upper, None, None),
     Page(T_accent, N_Bolt, None)}

\* extract_company_info on each of them
Extracted == [page \in PageResults |-> extract_company_info(page)]

\* The move to the next base site, or out of the loop after the last one
NextSite(r) == [r EXCEPT !.si = @ + 1, !.ti = 1]
AfterSite(r) == IF r.si + 1 > Len(r.urls) THEN "report" ELSE "probe"

\* The button Search & Extract: the searches, the dedupe, added = 0
StartSearch ==
    /\ pc = "idle"
    /\ \E results \in SeqsUpTo(ApiUrls, MaxUrls) :
        /\ run' = [urls |-> CandidateSites(results), si |-> 1, ti |-> 1,
                   added |-> 0, before |-> leads]
        /\ pc' = IF CandidateSites(results) = <<>> THEN "report" ELSE "probe"
    /\ log' = <<>>
    /\ UNCHANGED <<leads, op, camp, flt>>

\* extract_company_info(target) and, if it yields an email, upsert, count, break
Probe ==
    /\ pc = "probe"
    /\ \E page \in PageResults :
        LET base == run.urls[run.si]
            target == try_candidate_pages(base)[run.ti]
            got == Extracted[page]
            probed == [e |-> "probe", site |-> run.si, target |-> target,
                       found |-> Truthy(got.email)]
        IN  IF Truthy(got.email)
            THEN /\ leads' = upsert_lead(leads, got.name, got.email, base,
                                         got.phone, S_bing)
                 /\ Len(leads') <= MaxLeads
                 /\ log' = log \o <<probed,
                                    [e |-> "upsert", site |-> run.si, website |-> base]>>
                 /\ run' = [NextSite(run) EXCEPT !.added = @ + 1]
                 /\ pc' = AfterSite(run)
            ELSE /\ log' = Append(log, probed)
                 /\ pc' = "sleep"
                 /\ UNCHANGED <<leads, run>>
    /\ UNCHANGED <<op, camp, flt>>

\* time.sleep(rate_delay or 1.0) after a page without an email
ProbeSleep ==
    /\ pc = "sleep"
    /\ log' = Append(log, [e |-> "sleep", site |-> run.si])
    /\ IF run.ti < 5
       THEN run' = [run EXCEPT !.ti = @ + 1] /\ pc' = "probe"
       ELSE run' = NextSite(run) /\ pc' = AfterSite(run)
    /\ UNCHANGED <<leads, op, camp, flt>>

\* st.success(f"Added {added} contacts.")
ReportSearch ==
    /\ pc = "report"
    /\ op' = [kind |-> "search", added |-> run.added, before |-> run.before]
    /\ pc' = "shown"
    /\ UNCHANGED <<leads, run, camp, log, flt>>

NextSearch == StartSearch \/ Probe \/ ProbeSleep \/ ReportSearch \/ Rerun

SpecSearch == Init /\ [][NextSearch]_vars

\* The pages of a base site in the order the claim gives: the base, then
\* /contact, /contact-us, /about and /team under the base without its trailing
\* slashes
PagesInOrder(base) ==
    [k \in 1..5 |->
        IF k = 1 THEN base
        ELSE RStripSlash(base) \o
             <<"/">> \o
             (CASE k = 2 -> <<"c","o","n","t","a","c","t">>
                [] k = 3 -> <<"c","o","n","t","a","c","t","-","u","s">>
                [] k = 4 -> <<"a","b","o","u","t">>
                [] k = 5 -> <<"t","e","a","m">>)]

\* C6: the pages of each candidate base site are probed in the order base,
\* base/contact, base/contact-us, base/about, base/team; no page of a site is
\* probed after one of its pages yielded an email, so a site has at most 5 probes
\* and at most one upsert, made with Website = base; and a sleep lies between any
\* two probes of the same site.
C6_ProbeOrderStopAndDelay ==
    run.si > 0 =>
        /\ \A i \in DOMAIN log :
            log[i].e = "probe" =>
                LET s == log[i].site
                    earlier == {j \in 1..(i-1) : log[j].e = "probe" /\ log[j].site = s}
                    k == Cardinality(earlier) + 1
                IN  /\ k <= 5
                    /\ log[i].target = PagesInOrder(run.urls[s])[k]
                    /\ \A j \in earlier :
                          /\ ~log[j].found
                          /\ \E m \in (j+1)..(i-1) : log[m].e = "sleep"
        /\ \A i \in DOMAIN log :
            log[i].e = "upsert" =>
                /\ log[i].website = run.urls[log[i].site]
                /\ \A j \in DOMAIN log :
                      (log[j].e = "upsert" /\ log[j].site = log[i].site) => j = i
        /\ \A i \in (Len(run.before) + 1)..Len(leads) :
              \E j \in DOMAIN log :
                  log[j].e = "upsert" /\ leads[i].Website = log[j].website

\* C6 witness: the base http://b.org/ and its /contact page gave no email, its
\* /contact-us page gave one, and the row was stored with Website = base.
C6_Witness_ThirdPageYields ==
    /\ Len(log) = 6
    /\ run.urls[1] = U_b_slash
    /\ log[1].e = "probe" /\ ~log[1].found
    /\ log[2].e = "sleep"
    /\ log[3].e = "probe" /\ ~log[3].found
    /\ log[4].e = "sleep"
    /\ log[5].e = "probe" /\ log[5].found
    /\ log[5].target = <<"h","t","t","p",":","/","/","b",".","o","r","g","/","c","o","n","t","a","c","t","-","u","s">>
    /\ log[6].e = "upsert"
    /\ Len(leads) = Len(run.before) + 1
    /\ leads[Len(leads)].Website = U_b_slash

\* C10: the count in "Added N contacts" is the number of rows the run added to
\* the lead store.
C10_AddedIsRowsAppended ==
    op.kind = "search" => op.added = Len(leads) - Len(op.before)

----------------------------------------------------------------------------
(* Export and re-import *)

\* Download leads.csv (offered when the store is not empty), then upload it in
\* a new session, whose store is empty
ExportReimport ==
    /\ pc = "idle"
    /\ leads # <<>>
    /\ LET st == import_csv(<<>>, to_csv(leads))
       IN  /\ leads' = st.df
           /\ op' = [kind |-> "roundtrip", before |-> leads, imported |-> st.imported]
    /\ pc' = "shown"
    /\ UNCHANGED <<run, camp, log, flt>>

NextRoundTrip ==
    \/ StartSearch \/ Probe \/ ProbeSleep \/ ReportSearch \/ Rerun
    \/ ImportCall \/ ExportReimport

SpecRoundTrip == Init /\ [][NextRoundTrip]_vars

\* C8: exporting a store built by the extractor and by imports and importing the
\* file into an empty store gives a store with the same set of Email values.
C8_RoundTripKeepsEmails ==
    op.kind = "roundtrip" =>
        {leads[i].Email : i \in DOMAIN leads} =
            {op.before[i].Email : i \in DOMAIN op.before}

----------------------------------------------------------------------------
(* Email campaign *)

\* The k-th address put in the store before a campaign: a@b.co, b@b.co, ...
CampEmail(k) == <<LowerSeq[k], "@", "b", ".", "c", "o">>

\* emails = leads["Email"].dropna().tolist() if not leads.empty else []
StoredEmails(df) ==
    AtPositions([i \in DOMAIN df |-> df[i].Email],
                {i \in DOMAIN df : df[i].Email # NaN}, 1)

\* A faulty variant of CapReached: the loop stops one send late
CapReached_late(sent, daily_cap) == sent > daily_cap

\* if sent >= daily_cap: break
CapReached(sent, daily_cap) == sent >= daily_cap

\* A faulty variant of AfterFailure: a failed send ends the loop
AfterFailure_break(c) == [c EXCEPT !.ei = Len(c.emails) + 1]

\* except Exception: continue -- on to the next email, nothing counted, no sleep
AfterFailure(c) == [c EXCEPT !.ei = @ + 1]

\* A lead found by an earlier search, stored by upsert_lead
CampaignLead ==
    /\ pc = "idle"
    /\ Len(leads) < MaxCampLeads
    /\ leads' = upsert_lead(leads, N_Acme, CampEmail(Len(leads) + 1), U_a, None, S_bing)
    /\ op' = [kind |-> "upsert", name |-> N_Acme,
              email |-> CampEmail(Len(leads) + 1), before |-> leads]
    /\ pc' = "shown"
    /\ UNCHANGED <<run, camp, log, flt>>

\* The button "Send campaign now (up to cap)": sent = 0, the loop starts
StartCampaign ==
    /\ pc = "idle"
    /\ \E daily_cap \in 0..MaxCap :
        camp' = [emails |-> StoredEmails(leads), ei |-> 1, sent |-> 0,
                 cap |-> daily_cap]
    /\ log' = <<>>
    /\ pc' = "loop"
    /\ UNCHANGED <<leads, op, run, flt>>

\* One pass of the loop body up to the end of send_email_smtp, which returns or
\* raises
CampaignSend ==
    /\ pc = "loop"
    /\ camp.ei <= Len(camp.emails)
    /\ ~CapReached(camp.sent, camp.cap)
    /\ \E ok \in BOOLEAN :
        /\ log' = Append(log, [e |-> "send", idx |-> camp.ei,
                               to |-> camp.emails[camp.ei], ok |-> ok])
        /\ IF ok
           THEN camp' = [camp EXCEPT !.sent = @ + 1] /\ pc' = "delay"
           ELSE camp' = AfterFailure(camp) /\ pc' = "loop"
    /\ UNCHANGED <<leads, op, run, flt>>

\* time.sleep(0.3) after a send that succeeded
CampaignSleep ==
    /\ pc = "delay"
    /\ log' = Append(log, [e |-> "sleep"])
    /\ camp' = [camp EXCEPT !.ei = @ + 1]
    /\ pc' = "loop"
    /\ UNCHANGED <<leads, op, run, flt>>

\* The loop is left (list exhausted, or break at the cap): "Sent N emails."
CampaignReport ==
    /\ pc = "loop"
    /\ camp.ei > Len(camp.emails) \/ CapReached(camp.sent, camp.cap)
    /\ op' = [kind |-> "campaign", sent |-> camp.sent]
    /\ pc' = "shown"
    /\ UNCHANGED <<leads, run, camp, log, flt>>

NextCampaign ==
    \/ CampaignLead \/ StartCampaign \/ CampaignSend \/ CampaignSleep
    \/ CampaignReport \/ Rerun

SpecCampaign == Init /\ [][NextCampaign]_vars

\* The handler runs to its end once started: send_email_smtp returns or raises
\* within its timeouts, and the script is single-threaded.
SpecCampaignFair ==
    /\ Init
    /\ [][NextCampaign]_vars
    /\ WF_vars(CampaignSend \/ CampaignSleep \/ CampaignReport)

\* The send attempts in the log, and the successful ones among the first n entries
SendAttempts == {i \in DOMAIN log : log[i].e = "send"}
Succeeded(n) == {i \in SendAttempts : i <= n /\ log[i].ok}

\* C3: the campaign loop never has more than cap successful sends and makes no
\* send attempt once cap sends have succeeded; when every send succeeds and the
\* store holds at least cap leads (5 leads, cap 3), it sends to exactly the first
\* cap leads in store order and stops.
C3_CapBoundsSends ==
    camp.ei > 0 =>
        /\ Cardinality(Succeeded(Len(log))) <= camp.cap
        /\ \A i \in SendAttempts : Cardinality(Succeeded(i - 1)) < camp.cap
        /\ (/\ op.kind = "campaign"
            /\ Len(leads) >= camp.cap
            /\ \A i \in SendAttempts : log[i].ok) =>
                /\ op.sent = camp.cap
                /\ Cardinality(SendAttempts) = camp.cap
                /\ \A k \in 1..camp.cap :
                      \E i \in SendAttempts :
                          /\ log[i].to = leads[k].Email
                          /\ Cardinality({j \in SendAttempts : j <= i}) = k

\* C3 witness: 5 leads, cap 3, every send succeeded: 3 sends, to the first 3 leads
C3_Witness_FiveLeadsCapThree ==
    /\ op.kind = "campaign"
    /\ Len(leads) = 5
    /\ camp.cap = 3
    /\ op.sent = 3
    /\ Cardinality(SendAttempts) = 3
    /\ \A i \in SendAttempts : log[i].ok
    /\ {log[i].to : i \in SendAttempts} = {leads[1].Email, leads[2].Email, leads[3].Email}

\* The state part of C4: the k-th send attempt goes to the k-th stored email (no
\* recipient is tried twice or passed over), the loop is left only with the list
\* exhausted or the cap reached, and the reported count is the number of sends
\* that succeeded.
C4_SkipAndCount ==
    camp.ei > 0 =>
        /\ \A i \in SendAttempts :
              /\ log[i].idx = Cardinality({j \in SendAttempts : j <= i})
              /\ log[i].to = leads[log[i].idx].Email
        /\ op.kind = "campaign" =>
              /\ op.sent = Cardinality(Succeeded(Len(log)))
              /\ \/ Cardinality(SendAttempts) = Len(leads)
                 \/ Cardinality(Succeeded(Len(log))) >= camp.cap

\* C4: a send failure is not fatal to the campaign loop: the recipient is
\* skipped, never retried, the loop goes on to the next email in store order, it
\* always terminates, and the count it reports is the number of successful sends.
C4_FailureNotFatal ==
    /\ []C4_SkipAndCount
    /\ (pc \in {"loop", "delay"}) ~> (op.kind = "campaign")

\* C4 witness: of 2 leads the first send failed and the second succeeded; the run
\* ended reporting 1.
C4_Witness_FailThenSucceed ==
    /\ op.kind = "campaign"
    /\ Len(leads) = 2
    /\ Len(log) = 3
    /\ log[1].e = "send" /\ ~log[1].ok /\ log[1].to = leads[1].Email
    /\ log[2].e = "send" /\ log[2].ok /\ log[2].to = leads[2].Email
    /\ op.sent = 1

\* C5: between any two consecutive send attempts of a campaign run, whether the
\* earlier one succeeded or failed, there is a sleep.
C5_DelayBetweenAttempts ==
    \A i \in 1..(Len(log) - 1) :
        ~(log[i].e = "send" /\ log[i + 1].e = "send")

=============================================================================
